---- MODULE Spec2Model ----
(***************************************************************************)
(* WASAPI audio output driver (audio/drivers/wasapi.c).                    *)
(*                                                                         *)
(* Specifications over one set of variables:                               *)
(*   Spec        wasapi_init: device, session negotiation                  *)
(*               (wasapi_init_client / _sh / _ex) and the rest of open.    *)
(*   SpecDevice  wasapi_init up to the device: wasapi_init_device over     *)
(*               every endpoint collection and every answer of the         *)
(*               enumerator.                                               *)
(*   SpecStream  an opened stream: the tail of wasapi_init, then           *)
(*               write / write_avail / start / stop / set_nonblock_state   *)
(*               / free against an audio engine that drains its buffer     *)
(*               and signals the write event; records the writes.          *)
(*   SpecClock   the same stream, recording start / stop / free.           *)
(*   SpecBytes   the same stream, recording the bytes committed.           *)
(*   SpecLive    SpecStream with weak fairness of the steps of a write.    *)
(* The audio engine (IAudioClient, IAudioRenderClient, the event) is the   *)
(* environment: every HRESULT / wait result it can give is a               *)
(* nondeterministic choice.                                                *)
(***************************************************************************)
EXTENDS Integers, Sequences, FiniteSets, TLC

(* ---------------------------- bounds ---------------------------------- *)
\* IAudioClient handles the device hands out during one open
MaxHandles == 3
\* largest engine buffer, in frames, that GetBufferSize reports
MaxFrames == 2
\* most endpoints IMMDeviceCollection::GetCount reports
MaxEndpoints == 2

(* ------------------------- program constants -------------------------- *)
FloatFrameSize == 8
PcmFrameSize == 4
NumPrefRates == 4
PrefRates == <<48000, 44100, 96000, 192000>>

\* rates the frontend requests: the sentinel 0, a rate outside the
\* preference list, and the first, second and last entries of the list
ReqRates == {0, 32000, 44100, 48000, 192000}

S_OK == "S_OK"
E_FAIL == "E_FAIL"
UNSUPPORTED_FORMAT == "AUDCLNT_E_UNSUPPORTED_FORMAT"
ALREADY_INITIALIZED == "AUDCLNT_E_ALREADY_INITIALIZED"
BUFFER_SIZE_NOT_ALIGNED == "AUDCLNT_E_BUFFER_SIZE_NOT_ALIGNED"
DEVICE_IN_USE == "AUDCLNT_E_DEVICE_IN_USE"
EXCLUSIVE_MODE_NOT_ALLOWED == "AUDCLNT_E_EXCLUSIVE_MODE_NOT_ALLOWED"

HRESULTS ==
  {S_OK, E_FAIL, UNSUPPORTED_FORMAT, ALREADY_INITIALIZED,
   BUFFER_SIZE_NOT_ALIGNED, DEVICE_IN_USE, EXCLUSIVE_MODE_NOT_ALLOWED}

FAILED(h) == h # S_OK

SHARED == "AUDCLNT_SHAREMODE_SHARED"
EXCLUSIVE == "AUDCLNT_SHAREMODE_EXCLUSIVE"

NULL == 0

VARIABLES
  \* --- wasapi_init / wasapi_init_client control and locals
  pc,             \* position of the opening thread
  cfg_exclusive,  \* settings->audio.wasapi.exclusive_mode
  cfg_float,      \* settings->audio.wasapi.float_format
  rate,           \* requested rate (parameter of wasapi_init)
  exclusive,      \* local of wasapi_init, in/out of wasapi_init_client
  float_format,   \* local of wasapi_init, in/out of wasapi_init_client
  new_rate,       \* *new_rate, in/out of wasapi_init_client
  att,            \* attempts wasapi_init_client has completed (0..2)
  client,         \* local IAudioClient* of the running mode attempt
  i, j,           \* loop counters of the running mode attempt
  rate_res,       \* candidate rate of the running mode attempt
  float_fmt_res,  \* candidate format of the running mode attempt
  hr,             \* last HRESULT of the running mode attempt
  ret,            \* value returned by the finished mode attempt
  \* --- history of the negotiation
  cands,          \* (float, rate) of each loop body run by the latest attempt
  last,           \* the Initialize calls of the latest loop body, in order
  clean,          \* the latest attempt saw only "unsupported format" / S_OK
  mode_fatal,     \* an exclusive attempt was told "in use" / "not allowed"
  attempts,       \* finished mode attempts: [fn, ok]
  \* --- the device and its IAudioClient handles (engine side)
  hstate,         \* handle -> [st, mode, fmt, rel]
  nHandles,       \* handles activated so far
  \* --- wasapi_t
  w_device, w_client, w_renderer, w_event, w_buffer,
  buffer_size, buffer_usage, frame_size, blocking, running,
  \* --- engine side of the opened stream
  frames,         \* engine buffer size in frames
  queued,         \* frames queued in the engine buffer (padding)
  signaled,       \* state of the auto-reset write event
  started,        \* the engine's clock is running
  \* --- one wasapi_write call
  wpc,            \* position inside wasapi_write
  wsize,          \* size argument
  writen,         \* local of wasapi_write
  ir,             \* local of wasapi_write (result of the last transport call)
  wret,           \* value returned by the last wasapi_write
  flushed,        \* the running wasapi_write_ex flushed the staging buffer
  aligned,        \* every size passed to wasapi_write so far was whole frames
  \* --- history; a behaviour records one part of it
  watch,          \* the part recorded: "write", "clock" or "bytes"
  \* --- "clock": the last wasapi_start / wasapi_stop call; wasapi_free
  sop,            \* "start" / "stop" when it was the latest driver call
  sret,           \* value it returned
  srep,           \* the driver call before it was the same call
  sred,           \* the engine's clock was already in the state asked for
  teardown,       \* what wasapi_free, or the error exit of wasapi_init,
                  \* released, in order
  \* --- "write": what the wasapi_write calls did
  wrote,          \* wasapi_write has been called on this stream
  flushes,        \* wasapi_flush calls made by the running wasapi_write
  err,            \* what cut the running call short: the engine / OS call
                  \* that failed, or "nospace"
  had_error,      \* some wasapi_write has returned -1
  \* --- "bytes": the bytes handed to wasapi_write; a byte is named by its offset
  \* --- from the data pointer of the running call, bytes of calls that
  \* --- have returned have negative offsets
  stage,          \* the bytes in the staging buffer: [id, rep], rep false
                  \* for a byte of a call that returned -1
  npend,          \* bytes taken from the caller and not yet committed
  dropped,        \* a byte was taken and neither staged nor committed
  in_order,       \* every commit so far was of the oldest uncommitted bytes
  stray,          \* a byte of a call that returned -1 was committed
  ccall,          \* bytes of the running call committed so far
  taken,          \* bytes of the running call taken so far
  \* --- the audio endpoints of the machine and what wasapi_init holds
  denv,           \* the dev_id parameter, the endpoints of the collection and
                  \* the answers of the device enumerator
  device,         \* the endpoint w->device refers to
  acquired        \* what wasapi_init has obtained and must give back

negVars ==
  <<pc, cfg_exclusive, cfg_float, rate, exclusive, float_format,
    new_rate, att, client, i, j, rate_res, float_fmt_res, hr, ret,
    cands, last, clean, mode_fatal, attempts, hstate, nHandles>>
wVars ==
  <<w_device, w_client, w_renderer, w_event, w_buffer,
    buffer_size, buffer_usage, frame_size, blocking, running>>
engVars == <<frames, queued, signaled, started>>
ioVars == <<wpc, wsize, writen, ir, wret, flushed, aligned>>
ctlVars == <<watch, sop, sret, srep, sred, teardown>>

\* the value of a history variable of part w: new when recorded
Rec(w, new, old) == IF watch = w THEN new ELSE old
obsVars == <<wrote, flushes, err, had_error>>
dataVars == <<stage, npend, dropped, in_order, stray, ccall, taken>>
devVars == <<denv, device>>
vars ==
  <<negVars, wVars, engVars, ioVars, ctlVars, obsVars, dataVars, devVars,
    acquired>>

(* ----------------------- pure helpers of the driver -------------------- *)

\* wasapi_pref_rate: the k-th preferred rate, 0 past the end of the list
wasapi_pref_rate(k) ==
  IF k >= NumPrefRates THEN 0 ELSE PrefRates[k + 1]

\* wasapi_set_format: the WAVEFORMATEXTENSIBLE handed to Initialize
wasapi_set_format(float_fmt, r) ==
  [nChannels |-> 2, nSamplesPerSec |-> r,
   nBlockAlign |-> IF float_fmt THEN FloatFrameSize ELSE PcmFrameSize,
   float |-> float_fmt]

NoFormat == [nChannels |-> 0, nSamplesPerSec |-> 0, nBlockAlign |-> 0,
             float |-> FALSE]
NoHandle == [st |-> "none", mode |-> "", fmt |-> NoFormat, rel |-> 0]

(* -------------------------- engine operations -------------------------- *)

\* results Initialize can give on handle h: an initialized session
\* answers only "already initialized"
InitializeResults(hs, h) ==
  IF hs[h].st = "init" THEN {ALREADY_INITIALIZED} ELSE HRESULTS

\* IMMDevice::Activate can succeed only while handles remain
ActivateResults(n) == IF n < MaxHandles THEN BOOLEAN ELSE {FALSE}

\* m is the attempt inside one loop body: [client, hs, n, calls, hr, out]
\* calls: the Initialize calls of this body so far
\* out: "run" (still in the loop body), "retnull" (return NULL),
\*      "error" (goto error)
Initialize(m, fn, mode, wf, r) ==
  [m EXCEPT
     !.hs = IF r = S_OK
            THEN [@ EXCEPT ![m.client] =
                    [st |-> "init", mode |-> mode, fmt |-> wf, rel |-> 0]]
            ELSE @,
     !.calls = Append(@, [fn |-> fn, mode |-> mode, h |-> m.client,
                          pre |-> m.hs[m.client].st, fmt |-> wf, hr |-> r]),
     !.hr = r]

Release(hs, h) ==
  IF h = NULL THEN hs
  ELSE [hs EXCEPT ![h].st = "released", ![h].rel = @ + 1]

Activate(m, ok) ==
  IF ok /\ ok \in ActivateResults(m.n)
  THEN [m EXCEPT !.n = @ + 1, !.client = m.n + 1,
                 !.hs[m.n + 1] = [NoHandle EXCEPT !.st = "active"],
                 !.hr = S_OK]
  ELSE [m EXCEPT !.client = NULL, !.hr = E_FAIL, !.out = "retnull"]

\* client->Release(client); device->Activate(&client)
Reactivate(m, ok) ==
  Activate([m EXCEPT !.hs = Release(m.hs, m.client)], ok)

(* --------------------- the candidate loop (both modes) ----------------- *)

\* Position reached when the outer loop starts iteration k with format f:
\* "rate_res = *rate; if (i == 1) float_fmt_res = !float_fmt_res;" and the
\* inner loop's condition "rate_res"; with *rate = 0 no body ever runs.
\* [done, i, j, rate_res, flt]
RECURSIVE EnterOuter(_, _)
EnterOuter(k, f) ==
  IF k >= 2
  THEN [done |-> TRUE, i |-> k, j |-> j, rate_res |-> 0, flt |-> f]
  ELSE LET f2 == IF k = 1 THEN ~f ELSE f IN
       IF new_rate # 0
       THEN [done |-> FALSE, i |-> k, j |-> 0, rate_res |-> new_rate,
             flt |-> f2]
       ELSE EnterOuter(k + 1, f2)

\* faulty variant of NextCand: the requested rate is not skipped in the list
NextCandNoSkip(k, jj, f) ==
  LET r1 == wasapi_pref_rate(jj) IN
  IF r1 # 0
  THEN [done |-> FALSE, i |-> k, j |-> jj + 1, rate_res |-> r1, flt |-> f]
  ELSE EnterOuter(k + 1, f)

\* Tail of the loop body after "Unsupported format":
\*   rate_res = wasapi_pref_rate(j);
\*   if (rate_res == *rate) rate_res = wasapi_pref_rate(++j);
\* then the inner loop's ++j and its condition.
NextCand(k, jj, f) ==
  LET r1 == wasapi_pref_rate(jj)
      j1 == IF r1 = new_rate THEN jj + 1 ELSE jj
      r2 == IF r1 = new_rate THEN wasapi_pref_rate(jj + 1) ELSE r1
  IN IF r2 # 0
     THEN [done |-> FALSE, i |-> k, j |-> j1 + 1, rate_res |-> r2, flt |-> f]
     ELSE EnterOuter(k + 1, f)

\* line 306: the shared loop goes on only after "unsupported format"
sh_continue(h) == h = UNSUPPORTED_FORMAT

\* faulty variant of ex_continue: the loop goes on after a mode-fatal answer
ex_continue_in_use(h) == h \in {UNSUPPORTED_FORMAT, DEVICE_IN_USE}

\* line 413: the exclusive loop goes on only after "unsupported format";
\* "device in use" and "exclusive mode not allowed" leave through error
ex_continue(h) == h = UNSUPPORTED_FORMAT

\* the attempt as a loop body finds it
Running == [client |-> client, hs |-> hstate, n |-> nHandles,
            calls |-> <<>>, hr |-> hr, out |-> "run"]

\* the engine's answers during one shared loop body:
\* <<Initialize, Activate, Initialize>>; unused answers are fixed
ShScripts ==
  {<<r1, FALSE, E_FAIL>> : r1 \in HRESULTS}
  \cup {<<ALREADY_INITIALIZED, TRUE, r2>> : r2 \in HRESULTS}

\* faulty variant of sh_body: the retry is made on the same handle
sh_body_same_handle(m, wf, s) ==
  LET a == Initialize(m, "sh", SHARED, wf, s[1]) IN
  IF a.hr = ALREADY_INITIALIZED /\ s[2]
  THEN Initialize(a, "sh", SHARED, wf, s[3])
  ELSE IF a.hr = ALREADY_INITIALIZED THEN Reactivate(a, FALSE)
  ELSE a

\* wasapi_init_client_sh, lines 291-305
sh_body(m, wf, s) ==
  LET a == Initialize(m, "sh", SHARED, wf, s[1]) IN
  IF a.hr = ALREADY_INITIALIZED
  THEN LET b == Reactivate(a, s[2]) IN
       IF b.out = "retnull" THEN b
       ELSE Initialize(b, "sh", SHARED, wf, s[3])
  ELSE a

\* the engine's answers during one exclusive loop body:
\* <<Initialize, GetBufferSize, Activate, Initialize, Activate, Initialize>>
ExScripts ==
  {s \in HRESULTS \X BOOLEAN \X BOOLEAN \X HRESULTS \X BOOLEAN \X HRESULTS :
     /\ s[1] # BUFFER_SIZE_NOT_ALIGNED => ~s[2]
     /\ ~s[2] => ~s[3]
     /\ ~s[3] => s[4] = E_FAIL
     /\ (s[1] # ALREADY_INITIALIZED /\ s[4] # ALREADY_INITIALIZED) => ~s[5]
     /\ ~s[5] => s[6] = E_FAIL}

\* wasapi_init_client_ex, lines 383-412
ex_body(m, wf, s) ==
  LET a == Initialize(m, "ex", EXCLUSIVE, wf, s[1])
      b == IF a.hr = BUFFER_SIZE_NOT_ALIGNED
           THEN IF ~s[2]
                THEN [a EXCEPT !.hr = E_FAIL, !.out = "error"]
                ELSE LET a2 == Reactivate(a, s[3]) IN
                     IF a2.out = "retnull" THEN a2
                     ELSE Initialize(a2, "ex", EXCLUSIVE, wf, s[4])
           ELSE a
  IN IF b.out = "run" /\ b.hr = ALREADY_INITIALIZED
     THEN LET c == Reactivate(b, s[5]) IN
          IF c.out = "retnull" THEN c
          ELSE Initialize(c, "ex", SHARED, wf, s[6])
     ELSE b

IsClean(cs) == \A k \in 1..Len(cs) : cs[k].hr \in {UNSUPPORTED_FORMAT, S_OK}
IsModeFatal(cs) ==
  \E k \in 1..Len(cs) :
     /\ cs[k].fn = "ex"
     /\ cs[k].hr \in {DEVICE_IN_USE, EXCLUSIVE_MODE_NOT_ALLOWED}

\* what one loop body adds to the history of the negotiation
Recorded(m) ==
  /\ last' = m.calls
  /\ cands' = IF m.calls = <<>> THEN cands
              ELSE Append(cands, <<float_fmt_res, rate_res>>)
  /\ clean' = (clean /\ IsClean(m.calls) /\ m.out = "run")
  /\ mode_fatal' = (mode_fatal \/ IsModeFatal(m.calls))

\* The attempt returns c (NULL on failure) to wasapi_init_client; on
\* success the out-parameters are written (lines 321-322, 434-435).
AttemptReturns(m, c, fn, f, r) ==
  /\ pc' = "attempt_ret"
  /\ ret' = c
  /\ client' = c
  /\ hstate' = m.hs
  /\ nHandles' = m.n
  /\ hr' = m.hr
  /\ Recorded(m)
  /\ attempts' = Append(attempts, [fn |-> fn, ok |-> c # NULL])
  /\ float_format' = IF c # NULL THEN f ELSE float_format
  /\ new_rate' = IF c # NULL THEN r ELSE new_rate
  /\ UNCHANGED <<i, j, rate_res, float_fmt_res>>

\* "error:" of an attempt: WASAPI_RELEASE(client); return NULL
AttemptError(m, fn) ==
  AttemptReturns([m EXCEPT !.hs = Release(m.hs, m.client)], NULL, fn,
                 float_format, new_rate)

\* after the loops: WASAPI_HR_CHECK(hr, "IAudioClient::Initialize", goto error)
AfterLoops(m, fn, f, r) ==
  IF FAILED(m.hr) THEN AttemptError(m, fn)
  ELSE AttemptReturns(m, m.client, fn, f, r)

\* control after one execution of the loop body
AfterBody(m, fn, continue) ==
  IF m.out = "retnull" THEN AttemptReturns(m, NULL, fn, float_format, new_rate)
  ELSE IF m.out = "error" THEN AttemptError(m, fn)
  ELSE IF ~continue THEN AfterLoops(m, fn, float_fmt_res, rate_res)
  ELSE LET nx == NextCand(i, j, float_fmt_res) IN
       IF nx.done THEN AfterLoops(m, fn, nx.flt, nx.rate_res)
       ELSE /\ pc' = pc
            /\ i' = nx.i /\ j' = nx.j
            /\ rate_res' = nx.rate_res /\ float_fmt_res' = nx.flt
            /\ client' = m.client /\ hstate' = m.hs /\ nHandles' = m.n
            /\ hr' = m.hr
            /\ Recorded(m)
            /\ UNCHANGED <<ret, attempts, float_format, new_rate>>

\* entry of an attempt once Activate (and GetDevicePeriod) succeeded:
\* run the loops up to the first body, or past them when none runs
EnterLoops(m, fn) ==
  LET nx == EnterOuter(0, float_format) IN
  IF nx.done THEN AfterLoops(m, fn, nx.flt, nx.rate_res)
  ELSE /\ pc' = IF fn = "sh" THEN "sh_loop" ELSE "ex_loop"
       /\ i' = nx.i /\ j' = nx.j
       /\ rate_res' = nx.rate_res /\ float_fmt_res' = nx.flt
       /\ client' = m.client /\ hstate' = m.hs /\ nHandles' = m.n
       /\ hr' = m.hr
       /\ Recorded(m)
       /\ UNCHANGED <<ret, attempts, float_format, new_rate>>

\* faulty variant of wasapi_init_client_order: shared is always tried first
wasapi_init_client_order_shared_first(a, e) == IF a = 0 THEN "sh" ELSE "ex"

\* the mode wasapi_init_client tries as attempt a + 1 when *exclusive is e
\* (lines 459-478)
wasapi_init_client_order(a, e) ==
  IF a = 0 THEN (IF e THEN "ex" ELSE "sh")
  ELSE (IF e THEN "sh" ELSE "ex")

(* ------------------------------ wasapi_init ---------------------------- *)

\* the endpoint GetDefaultAudioEndpoint hands out; the endpoints of the
\* collection are named by their position 1, 2, ...
DEFAULT_ENDPOINT == -1

\* identifiers of endpoints; the dev_id parameter is NULL or the first one
DeviceIds == {1, 2}

\* an endpoint of the collection: whether IMMDeviceCollection::Item and
\* IMMDevice::GetId succeed on it, and its identifier
Endpoints == [item : BOOLEAN, getid : BOOLEAN, id : DeviceIds]

EndpointSeqs == UNION {[1..n -> Endpoints] : n \in 0..MaxEndpoints}

\* dev_id: the parameter of wasapi_init; eps: the collection; co: the
\* answers of CoCreateInstance to the first and the second call of
\* wasapi_init_device; enum, count, def: EnumAudioEndpoints, GetCount and
\* GetDefaultAudioEndpoint succeed; conv: dev_id converts to wide characters
DeviceEnvs ==
  [dev_id : {NULL, 1}, eps : EndpointSeqs, co : BOOLEAN \X BOOLEAN,
   enum : BOOLEAN, count : BOOLEAN, def : BOOLEAN, conv : BOOLEAN]

\* a machine with a default endpoint and no dev_id, and one with no
\* endpoint at all
EnvDefault ==
  [dev_id |-> NULL, eps |-> <<>>, co |-> <<TRUE, TRUE>>, enum |-> TRUE,
   count |-> TRUE, def |-> TRUE, conv |-> TRUE]
EnvNone == [EnvDefault EXCEPT !.def = FALSE]

\* wasapi_check_device_id, lines 124-155: false when a conversion or GetId
\* fails, else the result of lstrcmpW
wasapi_check_device_id(ep, id, conv) == conv /\ ep.getid /\ ep.id = id

\* faulty variant of item_failed: the search ends
item_failed_break(n, k) == n + 1

\* line 188: "continue" after a failed Item; n: dev_count, k: i + 1
item_failed(n, k) == k + 1

\* wasapi_init_device, lines 185-195: the loop from i = k - 1 on
\* [device, held]: the local device after the loop, the endpoints obtained
\* from Item and not released
RECURSIVE device_loop(_, _, _, _)
device_loop(eps, id, conv, k) ==
  IF k > Len(eps) THEN [device |-> NULL, held |-> {}]
  ELSE IF ~eps[k].item
  THEN device_loop(eps, id, conv, item_failed(Len(eps), k))
  ELSE IF wasapi_check_device_id(eps[k], id, conv)
  THEN [device |-> k, held |-> {k}]
  ELSE device_loop(eps, id, conv, k + 1)

\* wasapi_init_device(id), lines 157-223; co: CoCreateInstance succeeds.
\* The enumerator and the collection are released on both exits.
wasapi_init_device(id, e, co) ==
  IF ~co THEN [device |-> NULL, held |-> {}]
  ELSE IF id # NULL
  THEN IF ~e.enum \/ ~e.count THEN [device |-> NULL, held |-> {}]
       ELSE device_loop(e.eps, id, e.conv, 1)
  ELSE IF ~e.def THEN [device |-> NULL, held |-> {}]
  ELSE [device |-> DEFAULT_ENDPOINT, held |-> {DEFAULT_ENDPOINT}]

\* lines 509-511: w->device
wasapi_init_w_device(e) ==
  LET d == wasapi_init_device(e.dev_id, e, e.co[1]) IN
  IF d.device = NULL /\ e.dev_id # NULL
  THEN LET d2 == wasapi_init_device(NULL, e, e.co[2]) IN
       [device |-> d2.device, held |-> d.held \cup d2.held]
  ELSE d

\* what wasapi_init holds once the device is resolved
HeldAfterDevice(d) ==
  {"w"} \cup (IF d.device # NULL THEN {"device"} ELSE {})
        \cup (IF d.held \ {d.device} # {} THEN {"endpoint"} ELSE {})

\* the fields of w the error exit of wasapi_init looks at
Fields ==
  [renderer |-> w_renderer, client |-> w_client, device |-> w_device,
   event |-> w_event, buffer |-> w_buffer]

\* faulty variant of wasapi_init_error: the event is not closed
wasapi_init_error_leaks_event(f, com) ==
  (IF f.renderer THEN <<"renderer">> ELSE <<>>)
  \o (IF f.client # NULL THEN <<"client">> ELSE <<>>)
  \o (IF f.device THEN <<"device">> ELSE <<>>)
  \o (IF f.buffer THEN <<"buffer">> ELSE <<>>)
  \o <<"w">>
  \o (IF com THEN <<"CoUninitialize">> ELSE <<>>)

\* "error:" of wasapi_init, lines 551-562: what is released, in order; f:
\* the fields of w, com: com_initialized
wasapi_init_error(f, com) ==
  (IF f.renderer THEN <<"renderer">> ELSE <<>>)
  \o (IF f.client # NULL THEN <<"client">> ELSE <<>>)
  \o (IF f.device THEN <<"device">> ELSE <<>>)
  \o (IF f.event THEN <<"event">> ELSE <<>>)
  \o (IF f.buffer THEN <<"buffer">> ELSE <<>>)
  \o <<"w">>
  \o (IF com THEN <<"CoUninitialize">> ELSE <<>>)

InitSteps == {"calloc", "CoInitializeEx"}

\* wasapi_init, lines 490-517: allocate the driver, initialize COM, resolve
\* the device, enter wasapi_init_client with *new_rate = rate
wasapi_init ==
  /\ pc = "start"
  /\ \E r \in ReqRates, failing \in InitSteps \cup {"none"} :
       LET d == wasapi_init_w_device(denv) IN
       /\ rate' = r
       /\ exclusive' = cfg_exclusive
       /\ float_format' = cfg_float
       /\ IF failing = "calloc"
          THEN /\ pc' = "failed"
               /\ acquired' = {}
               /\ UNCHANGED <<new_rate, w_device, device, teardown>>
          ELSE IF failing = "CoInitializeEx"
          THEN /\ pc' = "failed"
               /\ acquired' = {"w"}
               /\ teardown' = wasapi_init_error(Fields, FALSE)
               /\ UNCHANGED <<new_rate, w_device, device>>
          ELSE IF d.device = NULL
          THEN /\ pc' = "failed"
               /\ acquired' = HeldAfterDevice(d)
               /\ teardown' = wasapi_init_error(Fields, TRUE)
               /\ UNCHANGED <<new_rate, w_device, device>>
          ELSE /\ pc' = "init_client"
               /\ new_rate' = r
               /\ w_device' = TRUE
               /\ device' = d.device
               /\ acquired' = HeldAfterDevice(d)
               /\ UNCHANGED teardown
  /\ UNCHANGED <<cfg_exclusive, cfg_float, att, client, i, j, rate_res,
                 float_fmt_res, hr, ret, cands, last, clean, mode_fatal,
                 attempts, hstate, nHandles>>
  /\ UNCHANGED <<w_client, w_renderer, w_event, w_buffer, buffer_size,
                 buffer_usage, frame_size, blocking, running>>
  /\ UNCHANGED <<engVars, ioVars>>
  /\ UNCHANGED <<denv, watch, sop, sret, srep, sred, obsVars, dataVars>>

\* an attempt at its entry: no client yet, an empty history
Fresh == [client |-> NULL, hs |-> hstate, n |-> nHandles,
          calls |-> <<>>, hr |-> hr, out |-> "run"]

\* wasapi_init_client_sh, lines 262-286: Activate, then the loops
wasapi_init_client_sh ==
  /\ pc = "init_client"
  /\ wasapi_init_client_order(att, exclusive) = "sh"
  /\ \E ok \in BOOLEAN :
       LET m == Activate(Fresh, ok) IN
       IF m.out = "retnull"
       THEN AttemptReturns(m, NULL, "sh", float_format, new_rate)
       ELSE EnterLoops(m, "sh")
  /\ UNCHANGED <<cfg_exclusive, cfg_float, rate, exclusive, att>>
  /\ UNCHANGED <<wVars, engVars, ioVars>>
  /\ UNCHANGED <<devVars, acquired, ctlVars, obsVars, dataVars>>

\* wasapi_init_client_sh, lines 286-339: one pass of the loop body, and
\* the function's exit when the loops end
wasapi_init_client_sh_loop ==
  /\ pc = "sh_loop"
  /\ \E s \in ShScripts :
       /\ s[1] \in InitializeResults(hstate, client)
       /\ LET wf == wasapi_set_format(float_fmt_res, rate_res)
              m == sh_body(Running, wf, s)
          IN AfterBody(m, "sh", sh_continue(m.hr))
  /\ UNCHANGED <<cfg_exclusive, cfg_float, rate, exclusive, att>>
  /\ UNCHANGED <<wVars, engVars, ioVars>>
  /\ UNCHANGED <<devVars, acquired, ctlVars, obsVars, dataVars>>

\* wasapi_init_client_ex, lines 342-377: Activate, GetDevicePeriod, then
\* the loops
wasapi_init_client_ex ==
  /\ pc = "init_client"
  /\ wasapi_init_client_order(att, exclusive) = "ex"
  /\ \E ok \in BOOLEAN, period \in BOOLEAN :
       LET m == Activate(Fresh, ok) IN
       IF m.out = "retnull"
       THEN AttemptReturns(m, NULL, "ex", float_format, new_rate)
       ELSE IF ~period
       THEN AttemptError([m EXCEPT !.hr = E_FAIL], "ex")
       ELSE EnterLoops(m, "ex")
  /\ UNCHANGED <<cfg_exclusive, cfg_float, rate, exclusive, att>>
  /\ UNCHANGED <<wVars, engVars, ioVars>>
  /\ UNCHANGED <<devVars, acquired, ctlVars, obsVars, dataVars>>

\* wasapi_init_client_ex, lines 377-449: one pass of the loop body, and
\* the function's exit when the loops end
wasapi_init_client_ex_loop ==
  /\ pc = "ex_loop"
  /\ \E s \in ExScripts :
       /\ s[1] \in InitializeResults(hstate, client)
       /\ LET wf == wasapi_set_format(float_fmt_res, rate_res)
              m == ex_body(Running, wf, s)
          IN AfterBody(m, "ex", ex_continue(m.hr))
  /\ UNCHANGED <<cfg_exclusive, cfg_float, rate, exclusive, att>>
  /\ UNCHANGED <<wVars, engVars, ioVars>>
  /\ UNCHANGED <<devVars, acquired, ctlVars, obsVars, dataVars>>

\* lines 465-466 and 475-476: a successful second attempt flips *exclusive
wasapi_init_client_mode(a, e) == IF a = 1 THEN ~e ELSE e

\* wasapi_init leaves by "error:" (lines 551-562) with the fields f of w
InitError(f) ==
  /\ pc' = "failed"
  /\ teardown' = wasapi_init_error(f, TRUE)
  /\ hstate' = Release(hstate, f.client)
  /\ w_device' = FALSE /\ w_client' = NULL /\ w_renderer' = FALSE
  /\ w_event' = FALSE /\ w_buffer' = FALSE

\* wasapi_init_client, lines 459-488, and lines 516-519 of wasapi_init:
\* what follows the return of a mode attempt
wasapi_init_client ==
  /\ pc = "attempt_ret"
  /\ att' = att + 1
  /\ IF ret # NULL
     THEN /\ exclusive' = wasapi_init_client_mode(att, exclusive)
          /\ w_client' = ret
          /\ pc' = "init_rest"
          /\ UNCHANGED <<hstate, w_device, w_renderer, w_event, w_buffer,
                         cands, last, clean, teardown>>
     ELSE IF att = 0
     THEN /\ pc' = "init_client"
          /\ cands' = <<>> /\ last' = <<>> /\ clean' = TRUE
          /\ UNCHANGED <<exclusive, hstate, w_device, w_client,
                         w_renderer, w_event, w_buffer, teardown>>
     ELSE /\ InitError(Fields)
          /\ UNCHANGED <<exclusive, cands, last, clean>>
  /\ UNCHANGED <<cfg_exclusive, cfg_float, rate, float_format, new_rate,
                 client, i, j, rate_res, float_fmt_res, hr, ret, mode_fatal,
                 attempts, nHandles>>
  /\ UNCHANGED <<buffer_size, buffer_usage, frame_size, blocking, running>>
  /\ UNCHANGED <<engVars, ioVars>>
  /\ UNCHANGED <<devVars, acquired, watch, sop, sret, srep, sred, obsVars,
                 dataVars>>

FinishSteps ==
  <<"GetBufferSize", "malloc", "CreateEventA", "SetEventHandle",
    "GetService", "GetBuffer", "ReleaseBuffer">>

\* faulty variant of frame_size_of: the two sizes swapped
frame_size_swapped(f) == IF f THEN PcmFrameSize ELSE FloatFrameSize

\* line 524: w->frame_size = float_format ? 8 : 4
frame_size_of(f) == IF f THEN FloatFrameSize ELSE PcmFrameSize

\* step s of FinishSteps has succeeded when step k is reached
Passed(k, s) == \E n \in 1..Len(FinishSteps) : FinishSteps[n] = s /\ n < k

\* what lines 526-540 have obtained when step k is reached
ObtainedAt(k) ==
  (IF exclusive /\ Passed(k, "malloc") THEN {"buffer"} ELSE {})
  \cup (IF Passed(k, "CreateEventA") THEN {"event"} ELSE {})
  \cup (IF Passed(k, "GetService") THEN {"renderer"} ELSE {})

\* the fields of w when step k is reached (lines 528, 532, 538)
FieldsAt(k) ==
  [Fields EXCEPT !.buffer = exclusive /\ Passed(k, "malloc"),
                 !.event = Passed(k, "CreateEventA"),
                 !.renderer = Passed(k, "GetService")]

\* wasapi_init, lines 521-549: buffer size, staging buffer, event, render
\* client, silence; a session that was never initialized has no buffer size
wasapi_init_finish ==
  /\ pc = "init_rest"
  /\ \E k \in 1..(Len(FinishSteps) + 1), fc \in 1..MaxFrames :
       LET failing == IF k > Len(FinishSteps) THEN "none" ELSE FinishSteps[k]
       IN /\ hstate[w_client].st # "init" => failing = "GetBufferSize"
          /\ ~exclusive => failing # "malloc"
          /\ acquired' = acquired \cup ObtainedAt(k)
          /\ IF failing # "none"
             THEN /\ InitError(FieldsAt(k))
                  /\ UNCHANGED <<buffer_size, frame_size, engVars>>
             ELSE /\ frame_size' = frame_size_of(float_format)
                  /\ buffer_size' = fc * frame_size_of(float_format)
                  /\ w_buffer' = FieldsAt(k).buffer
                  /\ w_event' = FieldsAt(k).event
                  /\ w_renderer' = FieldsAt(k).renderer
                  /\ frames' = fc
                  /\ queued' = fc
                  /\ signaled' = FALSE
                  /\ started' = FALSE
                  /\ pc' = "open"
                  /\ UNCHANGED <<hstate, w_device, w_client, teardown>>
  /\ UNCHANGED <<cfg_exclusive, cfg_float, rate, exclusive, float_format,
                 new_rate, att, client, i, j, rate_res, float_fmt_res, hr,
                 ret, cands, last, clean, mode_fatal, attempts, nHandles>>
  /\ UNCHANGED <<buffer_usage, blocking, running>>
  /\ UNCHANGED ioVars
  /\ UNCHANGED <<devVars, watch, sop, sret, srep, sred, obsVars, dataVars>>

(* ------------------------------ Spec ----------------------------------- *)

\* no call has been made on the stream
NoCalls ==
  /\ sop = "none" /\ sret = FALSE /\ srep = FALSE /\ sred = FALSE
  /\ teardown = <<>>
  /\ wrote = FALSE /\ flushes = 0 /\ err = "none" /\ had_error = FALSE
  /\ stage = <<>> /\ npend = 0 /\ dropped = FALSE
  /\ in_order = TRUE /\ stray = FALSE /\ ccall = 0 /\ taken = 0

Closed ==
  /\ w_device = FALSE /\ w_client = NULL /\ w_renderer = FALSE
  /\ w_event = FALSE /\ w_buffer = FALSE
  /\ buffer_size = 0 /\ buffer_usage = 0 /\ frame_size = 0
  /\ blocking = FALSE /\ running = FALSE
  /\ frames = 0 /\ queued = 0 /\ signaled = FALSE /\ started = FALSE
  /\ wpc = "idle" /\ wsize = 0 /\ writen = 0 /\ ir = 0 /\ wret = 0
  /\ flushed = FALSE /\ aligned = TRUE
  /\ NoCalls
  /\ device = NULL /\ acquired = {}

\* before wasapi_init: the settings hold any preference, nothing is open
Unopened ==
  /\ pc = "start" /\ watch = "write"
  /\ cfg_exclusive \in BOOLEAN /\ cfg_float \in BOOLEAN
  /\ rate = 0 /\ exclusive = FALSE /\ float_format = FALSE /\ new_rate = 0
  /\ att = 0 /\ client = NULL /\ i = 0 /\ j = 0 /\ rate_res = 0
  /\ float_fmt_res = FALSE /\ hr = S_OK /\ ret = NULL
  /\ cands = <<>> /\ last = <<>> /\ clean = TRUE /\ mode_fatal = FALSE
  /\ attempts = <<>>
  /\ hstate = [h \in 1..MaxHandles |-> NoHandle]
  /\ nHandles = 0
  /\ Closed

\* the negotiation runs on a machine with a default endpoint; on one
\* without, wasapi_init fails before it
Init == Unopened /\ denv \in {EnvDefault, EnvNone}

Next ==
  \/ wasapi_init
  \/ wasapi_init_client_sh
  \/ wasapi_init_client_sh_loop
  \/ wasapi_init_client_ex
  \/ wasapi_init_client_ex_loop
  \/ wasapi_init_client
  \/ wasapi_init_finish

Spec == Init /\ [][Next]_vars

(* ------------------------- the opened stream --------------------------- *)

\* sizes passed to wasapi_write: nothing, a part of a frame, one float
\* frame (two PCM frames), and more than any engine buffer holds
WriteSizes == {0, 3, FloatFrameSize, MaxFrames * FloatFrameSize + PcmFrameSize}

\* no wasapi_write is running: the one producer thread may make another call
Callable == pc = "open" /\ wpc \in {"idle", "ret"}

\* wasapi_set_nonblock_state
wasapi_set_nonblock_state ==
  /\ Callable
  /\ \E nonblock \in BOOLEAN : blocking' = ~nonblock
  /\ wpc' = "idle"
  /\ UNCHANGED <<negVars, engVars>>
  /\ UNCHANGED <<w_device, w_client, w_renderer, w_event, w_buffer,
                 buffer_size, buffer_usage, frame_size, running>>
  /\ UNCHANGED <<wsize, writen, ir, wret, flushed, aligned>>
  /\ sop' = "none" /\ sret' = FALSE /\ srep' = FALSE /\ sred' = FALSE
  /\ UNCHANGED <<devVars, acquired, watch, teardown, obsVars, dataVars>>

\* faulty variant of wasapi_start_returns: a failed Start is an error
wasapi_start_strict(ok, r) == ok

\* lines 686-692: what wasapi_start returns; ok: Start succeeded,
\* r: w->running
wasapi_start_returns(ok, r) == IF ok THEN TRUE ELSE r

\* faulty variant of wasapi_stop_returns: the running flag itself
wasapi_stop_alive(ok, r) == IF ok THEN TRUE ELSE r

\* lines 674-680: what wasapi_stop returns; ok: Stop succeeded,
\* r: w->running
wasapi_stop_returns(ok, r) == IF ok THEN TRUE ELSE ~r

\* faulty variant of running_after_start: the flag is set before the check
running_after_start_eager(ok, r) == TRUE

\* lines 688-690: w->running after wasapi_start
running_after_start(ok, r) == IF ok THEN TRUE ELSE r

\* lines 676-678: w->running after wasapi_stop
running_after_stop(ok, r) == IF ok THEN FALSE ELSE r

\* wasapi_alive
wasapi_alive == running

\* wasapi_start: IAudioClient::Start fails on a started stream and may
\* fail otherwise
wasapi_start ==
  /\ Callable
  /\ \E ok \in (IF started THEN {FALSE} ELSE BOOLEAN) :
       /\ running' = running_after_start(ok, running)
       /\ started' = (started \/ ok)
       /\ sret' = Rec("clock", wasapi_start_returns(ok, running), sret)
  /\ sop' = Rec("clock", "start", sop)
  /\ srep' = Rec("clock", sop = "start", srep)
  /\ sred' = Rec("clock", started, sred)
  /\ wpc' = "idle"
  /\ UNCHANGED <<negVars, frames, queued, signaled>>
  /\ UNCHANGED <<w_device, w_client, w_renderer, w_event, w_buffer,
                 buffer_size, buffer_usage, frame_size, blocking>>
  /\ UNCHANGED <<wsize, writen, ir, wret, flushed, aligned>>
  /\ UNCHANGED <<devVars, acquired, watch, teardown, obsVars, dataVars>>

\* wasapi_stop: IAudioClient::Stop succeeds (also on a stopped stream) or
\* fails
wasapi_stop ==
  /\ Callable
  /\ \E ok \in BOOLEAN :
       /\ running' = running_after_stop(ok, running)
       /\ started' = (started /\ ~ok)
       /\ sret' = Rec("clock", wasapi_stop_returns(ok, running), sret)
  /\ sop' = Rec("clock", "stop", sop)
  /\ srep' = Rec("clock", sop = "stop", srep)
  /\ sred' = Rec("clock", ~started, sred)
  /\ wpc' = "idle"
  /\ UNCHANGED <<negVars, frames, queued, signaled>>
  /\ UNCHANGED <<w_device, w_client, w_renderer, w_event, w_buffer,
                 buffer_size, buffer_usage, frame_size, blocking>>
  /\ UNCHANGED <<wsize, writen, ir, wret, flushed, aligned>>
  /\ UNCHANGED <<devVars, acquired, watch, teardown, obsVars, dataVars>>

\* The engine, once started, plays queued frames and signals the event:
\* an exclusive session hands back its whole buffer, a shared session
\* drains one or more frames of it.
EngineTick ==
  /\ pc = "open" /\ started
  /\ \E d \in 0..queued :
       /\ queued > 0 => d > 0
       /\ hstate[w_client].mode = EXCLUSIVE => d = queued
       /\ queued' = queued - d
  /\ signaled' = TRUE
  /\ UNCHANGED <<negVars, wVars, ioVars, frames, started>>
  /\ UNCHANGED <<devVars, acquired, ctlVars, obsVars, dataVars>>

\* faulty variant of wasapi_write_avail: padding subtracted as bytes
wasapi_write_avail_in_frames(ok) ==
  IF w_buffer THEN buffer_size - buffer_usage
  ELSE IF ~ok THEN 0
  ELSE buffer_size - queued

\* faulty variant of wasapi_write_avail: the staging buffer is not looked at
wasapi_write_avail_engine(ok) ==
  IF ~ok THEN 0 ELSE buffer_size - queued * frame_size

\* wasapi_write_avail; ok: GetCurrentPadding succeeds
wasapi_write_avail(ok) ==
  IF w_buffer THEN buffer_size - buffer_usage
  ELSE IF ~ok THEN 0
  ELSE buffer_size - queued * frame_size

\* wasapi_use_float
wasapi_use_float == frame_size = FloatFrameSize

\* wasapi_buffer_size
wasapi_buffer_size == buffer_size

\* wasapi_flush: GetBuffer / ReleaseBuffer of size / frame_size frames; the
\* engine has no room for more than frames - queued.
\* [ok, queued]
wasapi_flush(size, okGet, okRel) ==
  LET frame_count == size \div frame_size IN
  IF okGet /\ frame_count <= frames - queued /\ okRel
  THEN [ok |-> TRUE, queued |-> queued + frame_count]
  ELSE [ok |-> FALSE, queued |-> queued]

\* faulty variant of write_loop: the transport is called once
write_loop_once(wr, size, r) == FALSE

\* line 650: the condition of the blocking loop, "writen < size && ir"
write_loop(wr, size, r) == wr < size /\ r # 0

\* the transport wasapi_write calls (lines 652-655, 663-666)
Transport == IF w_buffer THEN "ex" ELSE IF blocking THEN "sh_wait" ELSE "sh"

\* the bytes with offsets from .. from + n - 1 of the running call
Bytes(from, n) == [k \in 1..n |-> from + k - 1]

\* staging buffer entries for newly copied bytes
Staged(ids) == [k \in 1..Len(ids) |-> [id |-> ids[k], rep |-> TRUE]]

Ids(st) == [k \in 1..Len(st) |-> st[k].id]

\* the staging buffer when the call returns r having taken t bytes: the
\* next call names its bytes from 0 again
Settle(st, t, r) ==
  [k \in 1..Len(st) |->
     [id |-> st[k].id - t, rep |-> st[k].rep /\ (st[k].id < 0 \/ r # -1)]]

\* the first u bytes of the staging buffer
Keep(st, u) == SubSeq(st, 1, u)

\* the bytes X are committed while np bytes taken are uncommitted: they are
\* in order when they are the oldest of those
CommitInOrder(X, np) ==
  in_order /\ (X = <<>> \/ (~dropped /\ X = Bytes(taken - np, Len(X))))

\* wasapi_write gets r from wasapi_write_ex / wasapi_write_sh
\* (lines 650-668); c, t, st, np: the bytes of the call committed and taken,
\* the staging buffer and the uncommitted bytes after the transport call
TransportReturns(r, c, t, st, np) ==
  /\ IF blocking
     THEN /\ ir' = r
          /\ IF r = -1
             THEN writen' = -1 /\ wret' = -1 /\ wpc' = "ret"
             ELSE /\ writen' = writen + r
                  /\ IF write_loop(writen + r, wsize, r)
                     THEN wpc' = Transport /\ UNCHANGED wret
                     ELSE wpc' = "ret" /\ wret' = writen + r
     ELSE /\ writen' = r /\ wret' = r /\ wpc' = "ret"
          /\ UNCHANGED ir
  /\ had_error' = Rec("write", had_error \/ r = -1, had_error)
  /\ stray' = Rec("bytes", stray \/ (r = -1 /\ c > 0), stray)
  /\ npend' = Rec("bytes", np, npend)
  /\ IF blocking /\ r # -1 /\ write_loop(writen + r, wsize, r)
     THEN /\ stage' = Rec("bytes", st, stage)
          /\ taken' = Rec("bytes", t, taken)
          /\ ccall' = Rec("bytes", c, ccall)
     ELSE /\ stage' = Rec("bytes", Settle(st, t, r), stage)
          /\ taken' = 0 /\ ccall' = 0

\* the bytes still to be written by the running call
Remaining == IF blocking THEN wsize - writen ELSE wsize

\* faulty variant of write_data: every call of the transport gets data
write_data_restart(wr) == 0

\* lines 653, 655: the transport gets data + writen
write_data(wr) == wr

\* where in data the running call of the transport reads
Offset == IF blocking THEN write_data(writen) ELSE 0

\* wasapi_write, lines 642-650 and 663-666: entry of a call
wasapi_write ==
  /\ Callable
  /\ \E size \in WriteSizes :
       /\ wsize' = size
       /\ aligned' = (aligned /\ size % frame_size = 0)
       /\ IF blocking
          THEN /\ ir' = -1
               /\ writen' = 0
               /\ IF write_loop(0, size, -1)
                  THEN wpc' = Transport /\ UNCHANGED wret
                  ELSE wpc' = "ret" /\ wret' = 0
          ELSE /\ wpc' = Transport
               /\ UNCHANGED <<ir, writen, wret>>
  /\ flushed' = FALSE
  /\ UNCHANGED <<negVars, wVars, engVars>>
  /\ sop' = "none" /\ sret' = FALSE /\ srep' = FALSE /\ sred' = FALSE
  /\ wrote' = Rec("write", TRUE, wrote) /\ flushes' = 0 /\ err' = "none"
  /\ UNCHANGED <<devVars, acquired, watch, teardown, had_error, dataVars>>

WAIT_OBJECT_0 == "WAIT_OBJECT_0"
WAIT_TIMEOUT == "WAIT_TIMEOUT"
WAIT_FAILED == "WAIT_FAILED"

\* what WaitForSingleObject(write_event, 0) can return
PollResults ==
  {WAIT_FAILED} \cup (IF signaled THEN {WAIT_OBJECT_0} ELSE {WAIT_TIMEOUT})

\* what WaitForSingleObject(write_event, INFINITE) can return; it does not
\* return while the event stays unsignaled
WaitResults ==
  {WAIT_FAILED} \cup (IF signaled THEN {WAIT_OBJECT_0} ELSE {})

\* what a wait that did not return WAIT_OBJECT_0 is recorded as
Missed(res) == IF res = WAIT_FAILED THEN "wait" ELSE "nospace"

\* faulty variant of ex_wait_miss: a missed event is always an error
ex_wait_miss_error(b) == -1

\* lines 619-625: wasapi_write_ex when the wait did not return
\* WAIT_OBJECT_0; b: w->blocking
ex_wait_miss(b) == IF b THEN -1 ELSE 0

\* faulty variant of usage_after_flush: usage is never reset
usage_after_flush_kept(ok, u) == u

\* faulty variant of usage_after_flush: usage is reset before the check
usage_after_flush_reset(ok, u) == 0

\* lines 627-631: w->buffer_usage after the flush of the full buffer
usage_after_flush(ok, u) == IF ok THEN 0 ELSE u

\* faulty variant of buffer_full: any staged byte makes the buffer full
buffer_full_nonempty(usage, size) == usage > 0

\* line 616: the staging buffer is full
buffer_full(usage, size) == usage = size

\* wasapi_write_ex, lines 616-632: a full staging buffer is flushed once
\* the event is signaled
wasapi_write_ex ==
  /\ pc = "open" /\ wpc = "ex"
  /\ IF buffer_full(buffer_usage, buffer_size)
     THEN \E res \in (IF blocking THEN WaitResults ELSE PollResults),
             okGet \in BOOLEAN, okRel \in BOOLEAN :
            IF res # WAIT_OBJECT_0
            THEN /\ TransportReturns(ex_wait_miss(blocking), ccall, taken,
                                     stage, npend)
                 /\ err' = Rec("write", Missed(res), err)
                 /\ UNCHANGED <<buffer_usage, queued, signaled, flushed,
                                flushes, in_order>>
            ELSE LET f == wasapi_flush(buffer_size, okGet, okRel)
                     u == usage_after_flush(f.ok, buffer_usage)
                     X == Ids(stage)
                 IN
                 /\ signaled' = FALSE
                 /\ queued' = f.queued
                 /\ flushes' = Rec("write", flushes + 1, flushes)
                 /\ buffer_usage' = u
                 /\ IF ~f.ok
                    THEN /\ TransportReturns(-1, ccall, taken,
                                             Keep(stage, u), npend)
                         /\ err' = Rec("write", "flush", err)
                         /\ UNCHANGED <<flushed, in_order>>
                    ELSE /\ flushed' = TRUE
                         /\ wpc' = "ex_stage"
                         /\ in_order' =
                              Rec("bytes", CommitInOrder(X, npend), in_order)
                         /\ npend' = Rec("bytes", npend - Len(X), npend)
                         /\ stage' = Rec("bytes", Keep(stage, u), stage)
                         /\ ccall' =
                              Rec("bytes",
                                  ccall + Cardinality({k \in 1..Len(X) :
                                                         X[k] >= 0}),
                                  ccall)
                         /\ stray' =
                              Rec("bytes",
                                  stray \/ \E k \in 1..Len(stage) :
                                             ~stage[k].rep,
                                  stray)
                         /\ UNCHANGED <<writen, ir, wret, err, had_error,
                                        taken>>
     ELSE /\ wpc' = "ex_stage"
          /\ flushed' = FALSE
          /\ UNCHANGED <<buffer_usage, queued, signaled, writen, ir, wret>>
          /\ UNCHANGED <<flushes, err, had_error, dataVars>>
  /\ UNCHANGED <<negVars, frames, started, wsize, aligned>>
  /\ UNCHANGED <<w_device, w_client, w_renderer, w_event, w_buffer,
                 buffer_size, frame_size, blocking, running>>
  /\ UNCHANGED <<devVars, acquired, ctlVars, wrote, dropped>>

\* faulty variant of write_result: the size is not clamped
write_result_unclamped(size, avail) == size

\* lines 603 and 635: the bytes a transport call takes
write_result(size, avail) == IF size < avail THEN size ELSE avail

\* wasapi_write_ex, lines 634-639: the new data is staged
wasapi_write_ex_stage ==
  /\ pc = "open" /\ wpc = "ex_stage"
  /\ LET result == write_result(Remaining, buffer_size - buffer_usage) IN
       /\ buffer_usage' = buffer_usage + result
       /\ TransportReturns(result, ccall, taken + result,
                           stage \o Staged(Bytes(Offset, result)),
                           npend + result)
  /\ UNCHANGED <<negVars, engVars, wsize, flushed, aligned>>
  /\ UNCHANGED <<w_device, w_client, w_renderer, w_event, w_buffer,
                 buffer_size, frame_size, blocking, running>>
  /\ UNCHANGED <<devVars, acquired, ctlVars, wrote, flushes, err, dropped, in_order>>

\* wasapi_write_sh, lines 590-594: a blocking call waits for the event
wasapi_write_sh_wait ==
  /\ pc = "open" /\ wpc = "sh_wait"
  /\ \E res \in WaitResults :
       IF res = WAIT_OBJECT_0
       THEN /\ signaled' = FALSE
            /\ wpc' = "sh"
            /\ UNCHANGED <<writen, ir, wret, err, had_error, dataVars>>
       ELSE /\ TransportReturns(-1, ccall, taken, stage, npend)
            /\ err' = Rec("write", "wait", err)
            /\ UNCHANGED <<signaled, dropped, in_order>>
  /\ UNCHANGED <<negVars, wVars, frames, queued, started, wsize, flushed,
                 aligned>>
  /\ UNCHANGED <<devVars, acquired, ctlVars, wrote, flushes>>

\* line 599: buffer_avail of wasapi_write_sh
sh_buffer_avail(padding) == buffer_size - padding * frame_size

\* faulty variant of write_sh_returns: the result of wasapi_flush is ignored
write_sh_returns_result(br, result) == result

\* line 606: what wasapi_write_sh returns after wasapi_flush returned br
write_sh_returns(br, result) == IF br THEN result ELSE -1

\* wasapi_write_sh, lines 596-606: what fits the engine buffer is flushed
wasapi_write_sh ==
  /\ pc = "open" /\ wpc = "sh"
  /\ \E okPad \in BOOLEAN, okGet \in BOOLEAN, okRel \in BOOLEAN :
       LET buffer_avail == sh_buffer_avail(queued)
           result == write_result(Remaining, buffer_avail)
           f == wasapi_flush(result, okGet, okRel)
           r == write_sh_returns(f.ok, result)
           X == IF f.ok THEN Bytes(Offset, (f.queued - queued) * frame_size)
                ELSE <<>>
           t == IF r = -1 THEN taken ELSE taken + r
           np == IF r = -1 THEN npend ELSE npend + r
       IN IF ~okPad
          THEN /\ TransportReturns(-1, ccall, taken, stage, npend)
               /\ err' = Rec("write", "padding", err)
               /\ UNCHANGED <<queued, flushes, dropped, in_order>>
          ELSE IF buffer_avail = 0
          THEN /\ TransportReturns(0, ccall, taken, stage, npend)
               /\ err' = Rec("write", "nospace", err)
               /\ UNCHANGED <<queued, flushes, dropped, in_order>>
          ELSE /\ queued' = f.queued
               /\ flushes' = Rec("write", flushes + 1, flushes)
               /\ err' = Rec("write", IF f.ok THEN err ELSE "flush", err)
               /\ in_order' =
                    Rec("bytes",
                        in_order /\ (X = <<>> \/
                          (~dropped /\ X = Bytes(t - np, Len(X)))),
                        in_order)
               /\ dropped' =
                    Rec("bytes", dropped \/ np - Len(X) > 0, dropped)
               /\ TransportReturns(r, ccall + Len(X), t, stage, 0)
  /\ UNCHANGED <<negVars, wVars, frames, signaled, started, wsize, flushed,
                 aligned>>
  /\ UNCHANGED <<devVars, acquired, ctlVars, wrote>>

\* a blocking wasapi_write is inside WaitForSingleObject(write_event,
\* INFINITE) (lines 592, 618) and the event is not signaled
WaitPending ==
  /\ pc = "open" /\ blocking /\ ~signaled
  /\ \/ wpc = "sh_wait"
     \/ wpc = "ex" /\ buffer_full(buffer_usage, buffer_size)

\* what a wasapi_write can return once w has been freed under it
UndefinedReturns == {-1, 0} \cup WriteSizes

\* faulty variant of wasapi_free_closes: only a failed wait leaves the event
wasapi_free_closes_on_timeout(res) == res # WAIT_FAILED

\* line 731: CloseHandle is reached when the wait returned WAIT_OBJECT_0
wasapi_free_closes(res) == res = WAIT_OBJECT_0

\* faulty variant of wasapi_free_steps: the event is always closed
wasapi_free_steps_close(res) ==
  <<"renderer", "Stop", "client", "device", "CoUninitialize", "buffer", "w",
    "wait", res, "event">>

\* lines 717-733: what wasapi_free does to an opened stream, in order; res:
\* what the 20 ms wait for the event returns
wasapi_free_steps(res) ==
  (IF w_renderer THEN <<"renderer">> ELSE <<>>)
  \o (IF w_client # NULL THEN <<"Stop", "client">> ELSE <<>>)
  \o (IF w_device THEN <<"device">> ELSE <<>>)
  \o <<"CoUninitialize">>
  \o (IF w_buffer THEN <<"buffer">> ELSE <<>>)
  \o <<"w", "wait", res>>
  \o (IF wasapi_free_closes(res) THEN <<"event">> ELSE <<>>)

\* wasapi_free: the interfaces are released, the staging buffer and w are
\* freed, the event is closed when the wait finds it signaled and is left
\* open otherwise. Nothing in wasapi_free looks at the producer thread: the
\* call runs between two calls of the producer or, from another thread,
\* while a blocking wasapi_write waits for the event; that wait is then
\* left pending on the event ("waiting").
wasapi_free ==
  /\ Callable \/ WaitPending
  /\ \E res \in PollResults :
       /\ teardown' = Rec("clock", wasapi_free_steps(res), teardown)
       /\ w_event' = ~wasapi_free_closes(res)
       /\ signaled' = (signaled /\ res # WAIT_OBJECT_0)
  /\ pc' = "closed"
  /\ wpc' = IF WaitPending THEN "waiting" ELSE "idle"
  /\ hstate' = Release(hstate, w_client)
  /\ started' = FALSE
  /\ w_renderer' = FALSE /\ w_client' = NULL /\ w_device' = FALSE
  /\ w_buffer' = FALSE
  /\ UNCHANGED <<cfg_exclusive, cfg_float, rate, exclusive, float_format,
                 new_rate, att, client, i, j, rate_res, float_fmt_res, hr,
                 ret, cands, last, clean, mode_fatal, attempts, nHandles>>
  /\ buffer_size' = 0 /\ buffer_usage' = 0 /\ frame_size' = 0
  /\ blocking' = FALSE /\ running' = FALSE
  /\ frames' = 0 /\ queued' = 0
  /\ wsize' = 0 /\ writen' = 0 /\ ir' = 0 /\ wret' = 0 /\ flushed' = FALSE
  /\ flushes' = 0 /\ err' = "none" /\ stage' = <<>>
  /\ acquired' = {}
  /\ UNCHANGED <<aligned, watch, sop, sret, srep, sred, wrote, had_error>>
  /\ UNCHANGED devVars
  /\ UNCHANGED <<npend, dropped, in_order, stray, ccall, taken>>

\* the wait of a blocking wasapi_write that wasapi_free left pending: the
\* call goes on with w freed (lines 596, 627) or never returns; what it
\* returns is undefined
wasapi_write_freed ==
  /\ pc = "closed" /\ wpc = "waiting"
  /\ wpc' = "undefined"
  /\ wret' \in UndefinedReturns
  /\ UNCHANGED <<negVars, wVars, engVars, wsize, writen, ir, flushed,
                 aligned>>
  /\ UNCHANGED <<devVars, acquired, ctlVars, obsVars, dataVars>>

StreamRates == {48000}

\* How wasapi_init_client has handed a client to the rest of wasapi_init:
\* "first" - the preferred attempt had its first candidate accepted;
\* "reinit" - the preferred exclusive attempt was answered
\* ALREADY_INITIALIZED and initialized a fresh handle in shared mode;
\* "norate" - the requested rate was 0 and no candidate was tried.
\* [path, exclusive, float_format, rate]
NegotiationOutcomes ==
  [path : {"first"}, exclusive : BOOLEAN, float_format : BOOLEAN,
   rate : StreamRates]
  \cup [path : {"reinit"}, exclusive : {TRUE}, float_format : BOOLEAN,
        rate : StreamRates]
  \cup [path : {"norate"}, exclusive : BOOLEAN, float_format : BOOLEAN,
        rate : {0}]

\* the Initialize call of outcome o on handle h in mode m, answered r
InitializeCall(o, h, m, r) ==
  [fn |-> IF o.exclusive THEN "ex" ELSE "sh", mode |-> m, h |-> h,
   pre |-> "active", fmt |-> wasapi_set_format(o.float_format, o.rate),
   hr |-> r]

\* the session of outcome o
SessionOf(o) ==
  IF o.path = "norate" THEN [NoHandle EXCEPT !.st = "active"]
  ELSE [st |-> "init",
        mode |-> IF o.exclusive /\ o.path = "first" THEN EXCLUSIVE
                 ELSE SHARED,
        fmt |-> wasapi_set_format(o.float_format, o.rate), rel |-> 0]

\* the state in which wasapi_init_client has returned a client by outcome o
InitStreamAt(o) ==
  LET h == IF o.path = "reinit" THEN 2 ELSE 1
      mode == IF o.exclusive THEN EXCLUSIVE ELSE SHARED
  IN
  /\ pc = "init_rest"
  /\ cfg_exclusive = o.exclusive /\ exclusive = o.exclusive
  /\ cfg_float = (IF o.path = "norate" THEN ~o.float_format
                  ELSE o.float_format)
  /\ float_format = o.float_format
  /\ rate = o.rate /\ new_rate = o.rate
  /\ att = 1 /\ client = h /\ ret = h /\ nHandles = h
  /\ i = 0 /\ j = 0 /\ rate_res = o.rate
  /\ float_fmt_res = (o.path # "norate" /\ o.float_format)
  /\ hr = S_OK
  /\ cands = (IF o.path = "norate" THEN <<>>
              ELSE <<<<o.float_format, o.rate>>>>)
  /\ last = (CASE o.path = "norate" -> <<>>
               [] o.path = "first" -> <<InitializeCall(o, 1, mode, S_OK)>>
               [] o.path = "reinit" ->
                    <<InitializeCall(o, 1, EXCLUSIVE, ALREADY_INITIALIZED),
                      InitializeCall(o, 2, SHARED, S_OK)>>)
  /\ clean = (o.path # "reinit")
  /\ mode_fatal = FALSE
  /\ attempts = <<[fn |-> IF o.exclusive THEN "ex" ELSE "sh", ok |-> TRUE]>>
  /\ hstate = [k \in 1..MaxHandles |->
                 IF k = h THEN SessionOf(o)
                 ELSE IF k < h
                 THEN [NoHandle EXCEPT !.st = "released", !.rel = 1]
                 ELSE NoHandle]
  /\ w_device = TRUE /\ w_client = h /\ w_renderer = FALSE
  /\ w_event = FALSE /\ w_buffer = FALSE
  /\ buffer_size = 0 /\ buffer_usage = 0 /\ frame_size = 0
  /\ blocking = FALSE /\ running = FALSE
  /\ frames = 0 /\ queued = 0 /\ signaled = FALSE /\ started = FALSE
  /\ wpc = "idle" /\ wsize = 0 /\ writen = 0 /\ ir = 0 /\ wret = 0
  /\ flushed = FALSE /\ aligned = TRUE
  /\ NoCalls
  /\ denv = EnvDefault /\ device = DEFAULT_ENDPOINT
  /\ acquired = {"w", "device"}

InitStream == watch = "write" /\ \E o \in NegotiationOutcomes : InitStreamAt(o)

InitClock == watch = "clock" /\ \E o \in NegotiationOutcomes : InitStreamAt(o)

InitBytes == watch = "bytes" /\ \E o \in NegotiationOutcomes : InitStreamAt(o)

NextStream ==
  \/ wasapi_init_finish
  \/ wasapi_set_nonblock_state
  \/ wasapi_start
  \/ wasapi_stop
  \/ EngineTick
  \/ wasapi_write
  \/ wasapi_write_ex
  \/ wasapi_write_ex_stage
  \/ wasapi_write_sh_wait
  \/ wasapi_write_sh
  \/ wasapi_free
  \/ wasapi_write_freed

SpecStream == InitStream /\ [][NextStream]_vars

\* the producer thread keeps running: a wasapi_write_ex that can go on does
SpecLive ==
  /\ InitStream /\ [][NextStream]_vars
  /\ WF_vars(wasapi_write_ex) /\ WF_vars(wasapi_write_ex_stage)

\* wasapi_init on any machine: any dev_id and collection of endpoints
InitDevice ==
  Unopened /\ ~cfg_exclusive /\ ~cfg_float /\ denv \in DeviceEnvs

NextDevice == wasapi_init

SpecDevice == InitDevice /\ [][NextDevice]_vars

SpecClock == InitClock /\ [][NextStream]_vars

SpecBytes == InitBytes /\ [][NextStream]_vars

(* ------------------- negotiation: claims C2 - C7 ----------------------- *)

Preferred == IF cfg_exclusive THEN "ex" ELSE "sh"
Other(fn) == IF fn = "ex" THEN "sh" ELSE "ex"
InLoop == pc \in {"sh_loop", "ex_loop"}
RunningFn == IF pc = "sh_loop" THEN "sh" ELSE "ex"
Range(q) == {q[k] : k \in 1..Len(q)}
\* wasapi_init_client returned NULL: both attempts are over, none gave a client
NegotiationFailed == pc = "failed" /\ attempts # <<>> /\ ret = NULL

\* C2: the first mode attempt is the preferred mode; the other mode is
\* attempted only after the preferred attempt failed; negotiation fails only
\* when both attempts failed; the mode put out is the mode of the attempt
\* that succeeded (preference shared: shared unless the shared attempt failed).
C2_PreferredModeFirst ==
  /\ Len(attempts) <= 2
  /\ Len(attempts) >= 1 => attempts[1].fn = Preferred
  /\ Len(attempts) = 2 => ~attempts[1].ok /\ attempts[2].fn = Other(Preferred)
  /\ InLoop =>
       /\ Len(attempts) <= 1
       /\ RunningFn = (IF attempts = <<>> THEN Preferred ELSE Other(Preferred))
  /\ NegotiationFailed =>
       Len(attempts) = 2 /\ ~attempts[1].ok /\ ~attempts[2].ok
  /\ pc = "failed" /\ attempts # <<>> /\ ~attempts[Len(attempts)].ok
       => Len(attempts) = 2
  /\ pc = "init_rest" =>
       /\ attempts[Len(attempts)].ok
       /\ exclusive = (attempts[Len(attempts)].fn = "ex")
       /\ ~cfg_exclusive => (exclusive <=> ~attempts[1].ok)

\* C2 witness: preference shared, the shared attempt failed, the exclusive
\* attempt gave the session
C2_Witness ==
  /\ pc = "init_rest" /\ ~cfg_exclusive /\ exclusive
  /\ Len(attempts) = 2 /\ attempts[2].ok

\* the candidates of one float setting, then of the other, for request (f, r)
PrefTail(r) == SelectSeq(PrefRates, LAMBDA x : x # r)
Half(f, r) == <<<<f, r>>>> \o [k \in 1..Len(PrefTail(r)) |-> <<f, PrefTail(r)[k]>>]
Expected(f, r) == Half(f, r) \o Half(~f, r)

\* C3: in a mode attempt in which the engine only rejects formats as
\* unsupported (or accepts), the (float, rate) pairs handed to Initialize are
\* the candidate list in its fixed order, each pair once, one call per pair;
\* the attempt goes on while pairs are rejected and stops at the first
\* accepted pair.
C3_CandidateOrder ==
  (clean /\ cands # <<>>) =>
    LET e == Expected(cfg_float, rate)
        n == Len(cands)
    IN /\ n <= Len(e)
       /\ cands = SubSeq(e, 1, n)
       /\ \A a, b \in 1..n : a # b => cands[a] # cands[b]
       /\ Len(last) = 1
       /\ <<last[1].fmt.float, last[1].fmt.nSamplesPerSec>> = cands[n]
       /\ last[1].hr = S_OK => ~InLoop /\ attempts[Len(attempts)].ok
       /\ last[1].hr = UNSUPPORTED_FORMAT =>
            IF n < Len(e) THEN InLoop
            ELSE ~InLoop /\ ~attempts[Len(attempts)].ok

\* C3 witness: the whole list of eight pairs was rejected for 48000 Hz
C3_Witness ==
  /\ clean /\ rate = 48000 /\ Len(cands) = 8
  /\ pc = "attempt_ret" /\ ret = NULL
  /\ cands = Expected(cfg_float, rate)

\* C4 (as claimed): a session returned by the negotiation was initialized on
\* the returned handle with exactly the (float, rate) put out, 2 channels,
\* and that pair is one of the candidates tried.
C4_ReturnedSessionInitialized ==
  pc = "init_rest" =>
    /\ hstate[w_client].st = "init"
    /\ hstate[w_client].fmt.float = float_format
    /\ hstate[w_client].fmt.nSamplesPerSec = new_rate
    /\ hstate[w_client].fmt.nChannels = 2
    /\ <<float_format, new_rate>> \in Range(cands)

\* C5 (as claimed): the mode put out, and the transport open chooses from
\* it, equal the share mode the session was initialized with.
C5_ModeMatchesSession ==
  (pc \in {"init_rest", "open"} /\ hstate[w_client].st = "init") =>
    /\ exclusive = (hstate[w_client].mode = EXCLUSIVE)
    /\ pc = "open" => (w_buffer = (hstate[w_client].mode = EXCLUSIVE))

ModeFatalCall(c) ==
  c.fn = "ex" /\ c.hr \in {DEVICE_IN_USE, EXCLUSIVE_MODE_NOT_ALLOWED}

\* C6: once Initialize of an exclusive attempt reports "device in use" or
\* "exclusive mode not allowed", that call is the attempt's last Initialize,
\* the attempt has failed with its handle released, and what runs next is
\* the shared attempt (exclusive preferred) or the failure of open.
C6_ModeFatal ==
  mode_fatal =>
    /\ pc # "ex_loop"
    /\ \E k \in 1..Len(attempts) : attempts[k].fn = "ex" /\ ~attempts[k].ok
    /\ \A k \in 1..Len(last) :
         ModeFatalCall(last[k]) =>
           /\ k = Len(last)
           /\ hstate[last[k].h].st = "released"
           /\ hstate[last[k].h].rel = 1
    /\ \A k \in 1..Len(last) : last[k].mode = EXCLUSIVE => last[k].fn = "ex"
    /\ ~cfg_exclusive => pc \in {"attempt_ret", "failed"}
    /\ cfg_exclusive /\ pc \in {"init_rest", "open"} =>
         attempts[Len(attempts)] = [fn |-> "sh", ok |-> TRUE]

\* C6 witness: the exclusive attempt was told "device in use" and the shared
\* attempt is now running
C6_Witness ==
  /\ mode_fatal /\ pc = "sh_loop"
  /\ attempts = <<[fn |-> "ex", ok |-> FALSE]>>

\* C7: Initialize is only ever called on a handle that was activated and
\* never initialized; in a shared attempt an "already initialized" answer
\* releases the handle, and the one retry of the same format is made on a
\* handle activated after it.
C7_InitializeOncePerHandle ==
  /\ \A k \in 1..Len(last) : last[k].pre = "active"
  /\ \A k \in 1..Len(last) :
       (last[k].fn = "sh" /\ last[k].hr = ALREADY_INITIALIZED) =>
         /\ hstate[last[k].h].st = "released"
         /\ hstate[last[k].h].rel = 1
         /\ k < Len(last) =>
              /\ k = 1 /\ Len(last) = 2
              /\ last[2].h > last[1].h
              /\ last[2].fmt = last[1].fmt
              /\ last[2].mode = SHARED
  /\ (last # <<>> /\ last[1].fn = "sh") =>
       /\ Len(last) <= 2
       /\ Len(last) = 2 => last[1].hr = ALREADY_INITIALIZED

\* C7 witness: a shared attempt was told "already initialized" and the retry
\* on a new handle was accepted
C7_Witness ==
  /\ Len(last) = 2 /\ last[1].fn = "sh"
  /\ last[1].hr = ALREADY_INITIALIZED /\ last[2].hr = S_OK
  /\ ret = last[2].h /\ pc = "attempt_ret"

(* ---------------------- stream: claims C1, C8 - C10 -------------------- *)

\* a blocking wasapi_write has just returned wret for wsize bytes
BlockingReturned == pc = "open" /\ wpc = "ret" /\ blocking

C8_UsageBounded ==
  (pc = "open" /\ w_buffer) =>
    /\ 0 <= buffer_usage /\ buffer_usage <= buffer_size
    /\ (wpc = "ex_stage" /\ flushed) => buffer_usage = 0

C8_Witness ==
  /\ pc = "open" /\ w_buffer /\ hstate[w_client].mode = EXCLUSIVE
  /\ wpc = "ex_stage" /\ flushed /\ buffer_usage = 0
  /\ wsize > buffer_size

\* C9: an opened stream has frame_size 8 when wasapi_use_float, else 4, as
\* negotiated; buffer_size is a multiple of frame_size; neither changes
\* while the stream stays open.
C9_FrameGeometry ==
  /\ [](pc = "open" =>
          /\ frame_size \in {PcmFrameSize, FloatFrameSize}
          /\ wasapi_use_float = float_format
          /\ wasapi_use_float = hstate[w_client].fmt.float
          /\ frame_size = hstate[w_client].fmt.nBlockAlign
          /\ wasapi_buffer_size = frames * frame_size
          /\ wasapi_buffer_size % frame_size = 0)
  /\ [][(pc = "open" /\ pc' = "open") =>
          (frame_size' = frame_size /\ buffer_size' = buffer_size)]_vars

C9_Witness ==
  /\ pc = "open" /\ wasapi_use_float /\ frames = MaxFrames
  /\ wpc = "ret" /\ wret = wsize /\ wsize > 0

\* C10 (as claimed): wasapi_write_avail reports a multiple of frame_size
\* with both transports, after writes of any sizes.
C10_AvailWholeFrames ==
  pc = "open" => \A ok \in BOOLEAN : wasapi_write_avail(ok) % frame_size = 0

\* C10 (amended): wasapi_write_avail reports a multiple of frame_size with
\* the shared transport always, and with the exclusive transport as long as
\* the size of every write so far was a multiple of frame_size.
C10_AvailWholeFramesIfAligned ==
  (pc = "open" /\ (w_buffer => aligned)) =>
    \A ok \in BOOLEAN : wasapi_write_avail(ok) % frame_size = 0

C10_Witness ==
  /\ pc = "open" /\ w_buffer /\ aligned /\ wpc = "ret"
  /\ 0 < buffer_usage /\ buffer_usage < buffer_size
  /\ wasapi_write_avail(TRUE) = buffer_size - buffer_usage

(* ------------------- write: claims C11 - C16 --------------------------- *)

Min(a, b) == IF a < b THEN a ELSE b

\* C11: after a successful open and before any wasapi_write,
\* wasapi_write_avail is buffer_size with the staging buffer (usage 0), and
\* without it buffer_size less the silence still queued in the engine: all
\* of the buffer right after open.
C11_AvailAfterOpen ==
  /\ []((pc = "open" /\ ~wrote) =>
          /\ buffer_usage = 0
          /\ w_buffer => \A ok \in BOOLEAN :
                           wasapi_write_avail(ok) = wasapi_buffer_size
          /\ ~w_buffer =>
               /\ queued <= frames
               /\ wasapi_write_avail(TRUE)
                    = wasapi_buffer_size - queued * frame_size)
  /\ [][(pc = "init_rest" /\ pc' = "open") =>
          /\ queued' = frames'
          /\ wasapi_write_avail(TRUE)'
               = (IF w_buffer' THEN wasapi_buffer_size' ELSE 0)]_vars

C11_Witness ==
  /\ pc = "open" /\ ~wrote /\ ~w_buffer /\ started
  /\ 0 < queued /\ queued < frames
  /\ wasapi_write_avail(TRUE) = frame_size * (frames - queued)

\* C12: a non-blocking wasapi_write with the staging buffer never waits.
\* Staging not full: min(size, buffer_size - usage) bytes are staged and
\* returned, the engine is not touched. Staging full: the event is polled
\* once; not signaled, 0 is returned and usage and the engine buffer stay;
\* signaled, the whole buffer is flushed once, usage becomes 0 and
\* min(size, buffer_size) bytes are staged (a failed flush returns -1, a
\* failed poll 0, both leaving usage and the engine buffer).
C12_NonBlockingExclusive ==
  /\ [][(wpc = "ex" /\ ~blocking /\ wpc' # wpc) =>
          IF buffer_usage < buffer_size
          THEN /\ wpc' = "ex_stage" /\ flushes' = flushes
               /\ UNCHANGED <<buffer_usage, engVars>>
          ELSE IF ~signaled
          THEN /\ wpc' = "ret" /\ wret' = 0 /\ flushes' = 0
               /\ UNCHANGED <<buffer_usage, engVars>>
          ELSE \/ /\ wpc' = "ex_stage" /\ flushes' = 1
                  /\ buffer_usage' = 0 /\ ~signaled'
                  /\ queued' = queued + buffer_size \div frame_size
               \/ /\ wpc' = "ret" /\ wret' = -1 /\ err' = "flush"
                  /\ UNCHANGED <<buffer_usage, queued>>
               \/ /\ wpc' = "ret" /\ wret' = 0 /\ err' = "wait"
                  /\ UNCHANGED <<buffer_usage, engVars>>]_vars
  /\ [][(wpc = "ex_stage" /\ ~blocking /\ wpc' # wpc) =>
          /\ wpc' = "ret"
          /\ wret' = Min(wsize, buffer_size - buffer_usage)
          /\ buffer_usage' = buffer_usage + wret'
          /\ UNCHANGED engVars]_vars
  /\ []((pc = "open" /\ ~blocking /\ wpc \in {"ex", "ex_stage"}) =>
          ENABLED (wasapi_write_ex \/ wasapi_write_ex_stage))

C12_Witness ==
  /\ pc = "open" /\ w_buffer /\ ~blocking /\ wpc = "ret"
  /\ flushed /\ flushes = 1 /\ wret = buffer_size /\ wsize > buffer_size
  /\ buffer_usage = buffer_size

\* what a non-blocking wasapi_write without the staging buffer does; whole:
\* the bytes committed for m bytes taken
NonBlockingShared(Commits(_)) ==
  (wpc = "sh" /\ ~blocking /\ wpc' # wpc) =>
    LET avail == buffer_size - queued * frame_size
        m == Min(wsize, avail)
    IN /\ wpc' = "ret" /\ signaled' = signaled
       /\ \/ /\ wret' = -1 /\ err' \in {"padding", "flush"}
             /\ queued' = queued
          \/ /\ avail = 0
             /\ wret' = 0 /\ flushes' = 0 /\ queued' = queued
          \/ /\ avail > 0
             /\ wret' = m /\ flushes' = 1
             /\ (queued' - queued) * frame_size = Commits(m)

AllOf(m) == m

WholeFramesOf(m) == (m \div frame_size) * frame_size

\* C13 (as claimed): a non-blocking wasapi_write in shared mode waits for
\* nothing and flushes at most once: it commits exactly min(size, available)
\* bytes and returns that count, and with no space available returns 0
\* without a call of GetBuffer / ReleaseBuffer.
C13_NonBlockingShared ==
  /\ [][NonBlockingShared(AllOf)]_vars
  /\ [](pc = "open" /\ ~blocking => wpc # "sh_wait")

\* C13 (amended): as claimed, but the bytes committed are the whole frames
\* in min(size, available): all of them when size is a multiple of
\* frame_size, while the count returned is min(size, available) always.
C13_NonBlockingSharedFrames ==
  /\ [][NonBlockingShared(WholeFramesOf)]_vars
  /\ [](pc = "open" /\ ~blocking => wpc # "sh_wait")

C13_Witness ==
  /\ pc = "open" /\ ~w_buffer /\ ~blocking /\ wpc = "ret"
  /\ flushes = 1 /\ 0 < wret /\ wret < wsize /\ queued = frames

\* C15: wasapi_write returns -1 exactly when a flush failed, the padding
\* query failed, or a wait failed in blocking mode; no space in non-blocking
\* mode gives 0; after a -1 a later call can succeed.
C15_ErrorReturn ==
  (pc = "open" /\ wpc = "ret") =>
    /\ (wret = -1) <=>
         (err \in {"flush", "padding"} \/ (err = "wait" /\ blocking))
    /\ (~blocking /\ err \in {"nospace", "wait"}) => wret = 0

C15_Witness ==
  /\ pc = "open" /\ wpc = "ret" /\ had_error
  /\ err = "none" /\ wret = wsize /\ wsize > 0

C16_FlushAllOrNothing ==
  /\ [][(wpc = "ex" /\ wpc' = "ret" /\ signaled /\ ~signaled') =>
          /\ wret' = -1
          /\ buffer_usage = buffer_size /\ UNCHANGED <<buffer_usage, queued>>
          /\ Len(stage') = Len(stage)
          /\ \A k \in 1..Len(stage) : stage'[k].id = stage[k].id - taken]_vars
  /\ [][(wpc = "ex" /\ wpc' = "ex_stage" /\ buffer_usage = buffer_size) =>
          /\ queued' = queued + buffer_size \div frame_size
          /\ buffer_usage' = 0 /\ stage' = <<>>]_vars
  /\ [][(pc = "open" /\ pc' = "open" /\ queued' > queued /\ wpc = "sh") =>
          queued' - queued
            = Min(Remaining, buffer_size - queued * frame_size)
                \div frame_size]_vars
  /\ []((pc = "open" /\ w_buffer) =>
          /\ in_order
          /\ Len(stage) = buffer_usage /\ npend = buffer_usage)

C16_Witness ==
  /\ pc = "open" /\ w_buffer /\ ~blocking /\ wpc = "ret" /\ wret = -1
  /\ buffer_usage = buffer_size /\ Len(stage) = buffer_size

(* ------------------- start / stop: claims C17 - C19 -------------------- *)

C18_RedundantReturnsAlive ==
  (pc = "open" /\ sop \in {"start", "stop"} /\ sred) => sret = wasapi_alive

\* C18 (amended): a redundant wasapi_start returns the value of
\* wasapi_alive (true); a redundant wasapi_stop returns its negation (true,
\* while wasapi_alive is false).
C18_RedundantReturnsSuccess ==
  (pc = "open" /\ sred) =>
    /\ sop = "start" => (sret = wasapi_alive /\ sret)
    /\ sop = "stop" => (sret = ~wasapi_alive /\ sret)

C18_Witness ==
  /\ pc = "open" /\ sop = "stop" /\ sred /\ sret /\ ~wasapi_alive

\* C19: wasapi_alive is true exactly when the engine's Start has succeeded
\* and its Stop has not succeeded since; it is false right after open, and
\* only wasapi_start and wasapi_stop change it.
C19_AliveTracksClock ==
  /\ [](pc = "open" => wasapi_alive = started)
  /\ [][(pc = "init_rest" /\ pc' = "open") => ~wasapi_alive']_vars
  /\ [][(pc = "open" /\ pc' = "open" /\ running' # running)
          => sop' \in {"start", "stop"}]_vars

C19_Witness ==
  /\ pc = "open" /\ sop = "stop" /\ ~sret /\ wasapi_alive

(* ----------------------- close: claim C20 ------------------------------ *)

\* the releases of the four resources the claim names, and the Stop
Named(td) ==
  SelectSeq(td, LAMBDA x : x \in {"Stop", "renderer", "client", "device",
                                  "event"})

\* C20 (as claimed): wasapi_free stops the clock, then releases the render
\* client, the session, the device and the event, in this order.
C20_TeardownOrder ==
  pc = "closed" =>
    Named(teardown) = <<"Stop", "renderer", "client", "device", "event">>

\* C20 (amended): wasapi_free releases the render client, then stops the
\* session's clock (running or not), then releases the session, then the
\* device, and last closes the event, the event only when the 20 ms wait
\* found it signaled; each at most once.
C20_TeardownOrderOfCode ==
  pc = "closed" =>
    /\ Named(teardown) \in
         {<<"renderer", "Stop", "client", "device">>,
          <<"renderer", "Stop", "client", "device", "event">>}
    /\ ("event" \in Range(teardown)) = ~w_event
    /\ ~w_renderer /\ w_client = NULL /\ ~w_device /\ ~w_buffer
    /\ \A h \in 1..MaxHandles : hstate[h].rel <= 1

C20_Witness ==
  /\ pc = "closed" /\ ~w_event /\ sop = "start" /\ sret
  /\ Named(teardown) = <<"renderer", "Stop", "client", "device", "event">>

(* ------------------- open: claims C23 and C24 -------------------------- *)

Count(td, x) == Len(SelectSeq(td, LAMBDA y : y = x))

\* wasapi_init has resolved the device (CoInitializeEx had succeeded)
Resolved ==
  \/ pc = "init_client"
  \/ pc = "failed" /\ "CoUninitialize" \in Range(teardown)

\* the endpoints of the collection of e whose identifier is dev_id
Matching(e) ==
  {k \in 1..Len(e.eps) :
     e.eps[k].item /\ e.eps[k].getid /\ e.conv /\ e.eps[k].id = e.dev_id}

\* the enumeration of e is made and succeeds
Enumerated(e) == e.dev_id # NULL /\ e.co[1] /\ e.enum /\ e.count

\* the default endpoint of e can be obtained by the call that asks for it
DefaultObtained(e) ==
  e.def /\ (IF e.dev_id = NULL THEN e.co[1] ELSE e.co[2])

\* C23: with a dev_id, wasapi_init uses the first endpoint of the
\* collection whose identifier equals dev_id, passing over endpoints whose
\* Item or GetId fails; with no match, a failed enumeration or no dev_id it
\* uses the default endpoint; it fails for lack of a device only when the
\* default endpoint cannot be obtained.
C23_DeviceResolution ==
  Resolved =>
    LET m == IF Enumerated(denv) THEN Matching(denv) ELSE {} IN
    /\ m # {} => (device \in m /\ \A k \in m : device <= k)
    /\ (m = {} /\ DefaultObtained(denv)) => device = DEFAULT_ENDPOINT
    /\ (pc = "failed") = (m = {} /\ ~DefaultObtained(denv))
    /\ pc = "failed" => device = NULL
    /\ "endpoint" \notin acquired

C23_Witness ==
  /\ pc = "init_client" /\ device = 2
  /\ ~denv.eps[1].item /\ ~denv.def

\* C24: when a step of wasapi_init fails, it returns NULL with everything
\* it had obtained released exactly once: the device, every IAudioClient
\* activated by the negotiation, the staging buffer, the event, the render
\* client (and w itself); nothing stays held.
C24_FailedOpenReleasesAll ==
  pc = "failed" =>
    /\ \A x \in acquired : Count(teardown, x) = 1
    /\ \A x \in Range(teardown) :
         x \in acquired \cup {"client", "CoUninitialize"}
    /\ \A h \in 1..nHandles :
         hstate[h].st = "released" /\ hstate[h].rel = 1
    /\ Count(teardown, "client") <= 1
    /\ ~w_device /\ w_client = NULL /\ ~w_renderer /\ ~w_event /\ ~w_buffer

C24_Witness ==
  /\ pc = "failed" /\ nHandles >= 2
  /\ acquired = {"w", "device", "buffer", "event", "renderer"}
  /\ Count(teardown, "event") = 1

(* ------------------- write: claims C25 and C26 ------------------------- *)

\* C25: with the staging buffer, every commit a wasapi_write makes to the
\* engine is of buffer_size bytes and is made with usage = buffer_size, in
\* blocking and in non-blocking mode.
C25_CommitsWholeStagingBuffer ==
  [][(pc = "open" /\ pc' = "open" /\ w_buffer /\ queued' > queued) =>
       /\ wpc = "ex"
       /\ buffer_usage = buffer_size
       /\ (queued' - queued) * frame_size = buffer_size
       /\ flushes' = flushes + 1]_vars

C25_Witness ==
  /\ pc = "open" /\ w_buffer /\ ~blocking /\ wpc = "ret"
  /\ flushes = 1 /\ queued = frames /\ wret > 0
  /\ buffer_usage < buffer_size

\* a blocking wasapi_write is running on a stream with the staging buffer
BlockingStaged ==
  pc = "open" /\ w_buffer /\ blocking /\ wpc \in {"ex", "ex_stage"}

\* C26: with the staging buffer and blocking on, when the engine signals
\* the event again and again and no engine or OS call fails, every
\* wasapi_write returns, and returns its size: each pass of the loop
\* stages at least one byte or waits for the event and flushes.
C26_BlockingExclusiveTerminates ==
  /\ ([]<>signaled /\ []~had_error) =>
       [](BlockingStaged => <>(pc = "open" /\ wpc = "ret" /\ wret = wsize))
  /\ [](pc = "open" /\ w_buffer /\ blocking /\ wpc = "ret" /\ wret # -1
          => wret = wsize)
  /\ [][(BlockingStaged /\ wpc = "ex_stage" /\ wpc' # wpc) =>
          buffer_usage' > buffer_usage]_vars
  /\ [][(BlockingStaged /\ wpc = "ex" /\ wpc' = "ex_stage"
           /\ buffer_full(buffer_usage, buffer_size)) =>
          (signaled /\ ~signaled' /\ buffer_usage' = 0)]_vars

C26_Witness ==
  /\ pc = "open" /\ w_buffer /\ blocking /\ wpc = "ret" /\ ~had_error
  /\ wret = wsize /\ wsize > 2 * buffer_size /\ flushes = 2

(* ------------------- close: claims C21 and C22 ------------------------- *)

\* what the wait of wasapi_free returned
FreeWait(td) ==
  SelectSeq(td, LAMBDA x : x \in {WAIT_OBJECT_0, WAIT_TIMEOUT, WAIT_FAILED})

\* C21: wasapi_free waits for the event once and closes it exactly when
\* the wait found it signaled; after a timeout or a failed wait the event is
\* left open, while the render client, the session, the device, the
\* staging buffer and w have been released, and wasapi_free has returned.
C21_EventClosedIffSignaled ==
  pc = "closed" =>
    /\ Count(teardown, "wait") = 1 /\ Len(FreeWait(teardown)) = 1
    /\ ("event" \in Range(teardown)) = (FreeWait(teardown) = <<WAIT_OBJECT_0>>)
    /\ w_event = ("event" \notin Range(teardown))
    /\ Count(teardown, "event") <= 1
    /\ ~w_renderer /\ w_client = NULL /\ ~w_device /\ ~w_buffer
    /\ Count(teardown, "w") = 1
    /\ \A h \in 1..nHandles : hstate[h].st = "released"

C21_Witness ==
  /\ pc = "closed" /\ w_event /\ FreeWait(teardown) = <<WAIT_TIMEOUT>>
  /\ "buffer" \in Range(teardown) /\ "renderer" \in Range(teardown)

\* C22: when wasapi_free runs while a blocking wasapi_write waits for the
\* event, w is not freed and the event is not closed while that wait is
\* pending.
C22_NoTeardownUnderWait ==
  (pc = "closed" /\ wpc = "waiting") =>
    ("w" \notin Range(teardown) /\ "event" \notin Range(teardown))

====
